---- MODULE Spec2Model ----
(***************************************************************************)
(* Model of build-viewer.py (class ViewerBuildScript): one invocation of   *)
(* the script, from the command line to the process exit.                  *)
(*                                                                         *)
(* Strings of the program are TLA+ strings.  Python's None / empty string  *)
(* for an omitted -arch is "", an omitted (or empty) -backends is <<>>.    *)
(* The rendered GN text is the sequence of its non-blank lines, each line  *)
(* a pair <<name, value>> standing for "name = value".                     *)
(***************************************************************************)
EXTENDS Integers, Sequences, FiniteSets, TLC

VARIABLES args, self, pc, exit_code, stages, messages, world

vars == <<args, self, pc, exit_code, stages, messages, world>>

(* ------------------------------ bounds --------------------------------- *)

\* longest -backends list given on the command line
MaxBackends == 2

(* --------------------------- small helpers ----------------------------- *)

Range(s) == {s[i] : i \in DOMAIN s}

\* Python's `x in list`
In(x, s) == \E i \in DOMAIN s : s[i] = x

\* "true" if cond else "false"
PyBool(b) == IF b THEN "true" ELSE "false"

SeqsUpTo(S, n) == UNION {[1..k -> S] : k \in 0..n}

(* ------------------------- the static tables --------------------------- *)

Platforms == {"mac", "win", "linux"}

Configs == {"Debug", "Release"}

PLATFORM_BACKENDS ==
  [p \in Platforms |->
     CASE p = "mac"   -> [b \in {"gl", "metal", "vulkan", "dawn"} |-> b # "vulkan"]
       [] p = "win"   -> [b \in {"gl", "vulkan", "d3d", "dawn"} |-> TRUE]
       [] p = "linux" -> [b \in {"gl", "vulkan", "dawn"} |-> TRUE]]

DEFAULT_BACKENDS ==
  [p \in Platforms |->
     CASE p = "mac"   -> <<"gl", "metal", "dawn">>
       [] p = "win"   -> <<"gl", "vulkan", "d3d", "dawn">>
       [] p = "linux" -> <<"gl", "vulkan", "dawn">>]

\* the table with x64 accepted on mac as well
valid_archs_mac_x64 ==
  [p \in Platforms |->
     CASE p = "mac"   -> {"x64", "arm64"}
       [] p = "win"   -> {"x64", "arm64"}
       [] p = "linux" -> {"x64", "arm64"}]

valid_archs ==
  [p \in Platforms |->
     CASE p = "mac"   -> {"arm64"}
       [] p = "win"   -> {"x64", "arm64"}
       [] p = "linux" -> {"x64", "arm64"}]

(* ------------------------ command-line inputs -------------------------- *)

\* items of a comma-separated -backends value, as typed; d3d is typed with a
\* leading blank and in capitals, as in "gl, D3D"
RawTokens == {"gl", "metal", "vulkan", " D3D", "dawn"}

\* values of -arch as typed ("" : option omitted)
RawArchs == {"", "x64", "arm64", "x86"}

ArgSpace ==
  [platform : Platforms, config : Configs, arch : RawArchs,
   backends : SeqsUpTo(RawTokens, MaxBackends),
   no_ganesh : BOOLEAN, no_graphite : BOOLEAN,
   no_resources : BOOLEAN, clean : BOOLEAN]

(* --------------------------- the resolver ------------------------------ *)

\* str.strip() on the items of RawTokens
Strip(s) == IF s = " D3D" THEN "D3D" ELSE s

\* str.lower() on the stripped items
Lower(s) == IF s = "D3D" THEN "d3d" ELSE s

\* get_default_arch with the mac default taken from the other platforms
get_default_arch_x64(platform) ==
  IF platform = "mac" THEN "x64"
  ELSE IF platform = "win" THEN "x64"
  ELSE "x64"

get_default_arch(platform) ==
  IF platform = "mac" THEN "arm64"
  ELSE IF platform = "win" THEN "x64"
  ELSE "x64"

parse_backends(platform, backends_str) ==
  IF backends_str # <<>>
  THEN [i \in DOMAIN backends_str |-> Lower(Strip(backends_str[i]))]
  ELSE DEFAULT_BACKENDS[platform]

\* the loop without its `elif not available[backend]` branch
RECURSIVE FilterBackends_known(_, _)
FilterBackends_known(platform, backends) ==
  IF backends = <<>> THEN [valid |-> <<>>, warnings |-> <<>>]
  ELSE LET available == PLATFORM_BACKENDS[platform]
           backend   == Head(backends)
           rest      == FilterBackends_known(platform, Tail(backends))
       IN  IF backend \notin DOMAIN available
           THEN [valid    |-> rest.valid,
                 warnings |-> <<(<<"Warning: not recognized", backend>>)>> \o rest.warnings]
           ELSE [valid    |-> <<backend>> \o rest.valid,
                 warnings |-> rest.warnings]

\* the loop of validate_configuration over self.backends: the backends kept
\* and the warnings printed, in order
RECURSIVE FilterBackends(_, _)
FilterBackends(platform, backends) ==
  IF backends = <<>> THEN [valid |-> <<>>, warnings |-> <<>>]
  ELSE LET available == PLATFORM_BACKENDS[platform]
           backend   == Head(backends)
           rest      == FilterBackends(platform, Tail(backends))
       IN  IF backend \notin DOMAIN available
           THEN [valid    |-> rest.valid,
                 warnings |-> <<(<<"Warning: not recognized", backend>>)>> \o rest.warnings]
           ELSE IF ~available[backend]
           THEN [valid    |-> rest.valid,
                 warnings |-> <<(<<"Warning: not recommended", backend>>)>> \o rest.warnings]
           ELSE [valid    |-> <<backend>> \o rest.valid,
                 warnings |-> rest.warnings]

ErrEngines == <<"Error: Viewer requires at least Ganesh or Graphite enabled", "">>
ErrBackends == <<"Error: No valid backends selected", "">>
WarnDawn == <<"Warning: Dawn requires Graphite. Enabling Graphite.", "">>
ErrArch(arch) == <<"Error: Invalid architecture", arch>>

\* validate_configuration with the engine check placed after the Dawn rule
validate_configuration_engines_last(s) ==
  LET f  == FilterBackends(s.platform, s.backends)
      s1 == [s EXCEPT !.backends = f.valid]
  IN  IF s1.backends = <<>>
      THEN [self |-> s1, exit |-> TRUE, out |-> f.warnings \o <<ErrBackends>>]
      ELSE
        LET force == In("dawn", s1.backends) /\ ~s1.with_graphite
            s2    == IF force THEN [s1 EXCEPT !.with_graphite = TRUE] ELSE s1
            out2  == f.warnings \o (IF force THEN <<WarnDawn>> ELSE <<>>)
        IN  IF ~s2.with_ganesh /\ ~s2.with_graphite
            THEN [self |-> s2, exit |-> TRUE, out |-> out2 \o <<ErrEngines>>]
            ELSE IF s2.arch \notin valid_archs[s2.platform]
            THEN [self |-> s2, exit |-> TRUE, out |-> out2 \o <<ErrArch(s2.arch)>>]
            ELSE [self |-> s2, exit |-> FALSE, out |-> out2]

\* validate_configuration whose Dawn rule warns without enabling Graphite
validate_configuration_warn_only(s) ==
  IF ~s.with_ganesh /\ ~s.with_graphite
  THEN [self |-> s, exit |-> TRUE, out |-> <<ErrEngines>>]
  ELSE
    LET f  == FilterBackends(s.platform, s.backends)
        s1 == [s EXCEPT !.backends = f.valid]
    IN  IF s1.backends = <<>>
        THEN [self |-> s1, exit |-> TRUE, out |-> f.warnings \o <<ErrBackends>>]
        ELSE
          LET force == In("dawn", s1.backends) /\ ~s1.with_graphite
              out2  == f.warnings \o (IF force THEN <<WarnDawn>> ELSE <<>>)
          IN  IF s1.arch \notin valid_archs[s1.platform]
              THEN [self |-> s1, exit |-> TRUE, out |-> out2 \o <<ErrArch(s1.arch)>>]
              ELSE [self |-> s1, exit |-> FALSE, out |-> out2]

\* validate_configuration whose architecture check prints without exiting
validate_configuration_arch_no_exit(s) ==
  IF ~s.with_ganesh /\ ~s.with_graphite
  THEN [self |-> s, exit |-> TRUE, out |-> <<ErrEngines>>]
  ELSE
    LET f  == FilterBackends(s.platform, s.backends)
        s1 == [s EXCEPT !.backends = f.valid]
    IN  IF s1.backends = <<>>
        THEN [self |-> s1, exit |-> TRUE, out |-> f.warnings \o <<ErrBackends>>]
        ELSE
          LET force == In("dawn", s1.backends) /\ ~s1.with_graphite
              s2    == IF force THEN [s1 EXCEPT !.with_graphite = TRUE] ELSE s1
              out2  == f.warnings \o (IF force THEN <<WarnDawn>> ELSE <<>>)
          IN  IF s2.arch \notin valid_archs[s2.platform]
              THEN [self |-> s2, exit |-> FALSE, out |-> out2 \o <<ErrArch(s2.arch)>>]
              ELSE [self |-> s2, exit |-> FALSE, out |-> out2]

\* validate_configuration without its engine check
validate_configuration_no_engine_check(s) ==
  LET f  == FilterBackends(s.platform, s.backends)
      s1 == [s EXCEPT !.backends = f.valid]
  IN  IF s1.backends = <<>>
      THEN [self |-> s1, exit |-> TRUE, out |-> f.warnings \o <<ErrBackends>>]
      ELSE
        LET force == In("dawn", s1.backends) /\ ~s1.with_graphite
            s2    == IF force THEN [s1 EXCEPT !.with_graphite = TRUE] ELSE s1
            out2  == f.warnings \o (IF force THEN <<WarnDawn>> ELSE <<>>)
        IN  IF s2.arch \notin valid_archs[s2.platform]
            THEN [self |-> s2, exit |-> TRUE, out |-> out2 \o <<ErrArch(s2.arch)>>]
            ELSE [self |-> s2, exit |-> FALSE, out |-> out2]

\* validate_configuration on the object s: the object as it leaves the
\* method, whether the method called sys.exit(1), and what it printed
validate_configuration(s) ==
  IF ~s.with_ganesh /\ ~s.with_graphite
  THEN [self |-> s, exit |-> TRUE, out |-> <<ErrEngines>>]
  ELSE
    LET f  == FilterBackends(s.platform, s.backends)
        s1 == [s EXCEPT !.backends = f.valid]
    IN  IF s1.backends = <<>>
        THEN [self |-> s1, exit |-> TRUE, out |-> f.warnings \o <<ErrBackends>>]
        ELSE
          LET force == In("dawn", s1.backends) /\ ~s1.with_graphite
              s2    == IF force THEN [s1 EXCEPT !.with_graphite = TRUE] ELSE s1
              out2  == f.warnings \o (IF force THEN <<WarnDawn>> ELSE <<>>)
          IN  IF s2.arch \notin valid_archs[s2.platform]
              THEN [self |-> s2, exit |-> TRUE, out |-> out2 \o <<ErrArch(s2.arch)>>]
              ELSE [self |-> s2, exit |-> FALSE, out |-> out2]

\* the assignments of parse_arguments before it calls validate_configuration
assign_arguments(a) ==
  [platform       |-> a.platform,
   config         |-> a.config,
   arch           |-> IF a.arch # "" THEN a.arch ELSE get_default_arch(a.platform),
   backends       |-> parse_backends(a.platform, a.backends),
   with_ganesh    |-> ~a.no_ganesh,
   with_graphite  |-> ~a.no_graphite,
   with_resources |-> ~a.no_resources,
   clean          |-> a.clean]

(* ---------------------- the configuration renderer -------------------- *)

VIEWER_BASE_GN_ARGS(ganesh, graphite) ==
  << <<"skia_enable_tools", "true">>,
     <<"skia_enable_ganesh", ganesh>>,
     <<"skia_enable_graphite", graphite>>,
     <<"skia_use_libjpeg_turbo_decode", "true">>,
     <<"skia_use_libpng_decode", "true">>,
     <<"skia_use_libpng_encode", "true">>,
     <<"skia_use_libwebp_decode", "true">>,
     <<"skia_use_wuffs", "true">>,
     <<"skia_use_icu", "true">>,
     <<"skia_use_harfbuzz", "true">>,
     <<"skia_enable_skparagraph", "true">>,
     <<"skia_enable_skshaper", "true">>,
     <<"skia_enable_skottie", "true">>,
     <<"skia_enable_svg", "true">>,
     <<"skia_enable_pdf", "true">>,
     <<"skia_use_system_libjpeg_turbo", "false">>,
     <<"skia_use_system_libpng", "false">>,
     <<"skia_use_system_zlib", "false">>,
     <<"skia_use_system_expat", "false">>,
     <<"skia_use_system_icu", "false">>,
     <<"skia_use_system_harfbuzz", "false">>,
     <<"skia_use_system_libwebp", "false">>,
     <<"skia_use_expat", "true">> >>

\* PLATFORM_GN_ARGS[platform].format(...): a template uses the fields it names
PLATFORM_GN_ARGS(platform, arch, use_gl, use_metal, use_vulkan, use_d3d, use_dawn, runtime_flag) ==
  CASE platform = "mac" ->
         << <<"cc", "clang">>,
            <<"cxx", "clang++">>,
            <<"target_os", "mac">>,
            <<"target_cpu", arch>>,
            <<"skia_use_gl", use_gl>>,
            <<"skia_use_metal", use_metal>>,
            <<"skia_use_vulkan", "false">>,
            <<"skia_use_dawn", use_dawn>>,
            <<"extra_cflags_c", "-Wno-error">>,
            <<"extra_cflags_cc", "-stdlib=libc++">>,
            <<"extra_ldflags", "-stdlib=libc++ -L/opt/homebrew/opt/llvm/lib/c++ -L/opt/homebrew/opt/llvm/lib/unwind -lunwind">> >>
    [] platform = "win" ->
         << <<"target_cpu", arch>>,
            <<"skia_use_gl", use_gl>>,
            <<"skia_use_vulkan", use_vulkan>>,
            <<"skia_use_direct3d", use_d3d>>,
            <<"skia_use_dawn", use_dawn>>,
            <<"skia_use_metal", "false">>,
            <<"is_trivial_abi", "false">>,
            <<"extra_cflags", runtime_flag>> >>
    [] platform = "linux" ->
         << <<"cc", "clang">>,
            <<"cxx", "clang++">>,
            <<"target_cpu", arch>>,
            <<"skia_use_gl", use_gl>>,
            <<"skia_use_vulkan", use_vulkan>>,
            <<"skia_use_dawn", use_dawn>>,
            <<"skia_use_metal", "false">>,
            <<"skia_use_direct3d", "false">>,
            <<"skia_use_x11", "true">>,
            <<"skia_use_fontconfig", "true">>,
            <<"skia_use_freetype", "true">>,
            <<"skia_use_system_freetype2", "false">>,
            <<"extra_cflags_c", "-Wno-error">> >>

\* candidate install paths of the Windows clang toolchain, in scan order
clang_paths ==
  << "C:\\Program Files\\LLVM",
     "C:\\Program Files\\Microsoft Visual Studio\\2022\\Professional\\VC\\Tools\\Llvm\\x64",
     "C:\\Program Files\\Microsoft Visual Studio\\2022\\Community\\VC\\Tools\\Llvm\\x64",
     "C:\\Program Files\\Microsoft Visual Studio\\2022\\Enterprise\\VC\\Tools\\Llvm\\x64" >>

\* what the file system can answer to os.path.isdir on the candidates:
\* the set of positions of clang_paths that are directories
ClangInstalls == SUBSET (DOMAIN clang_paths)

\* the scan loop: the first candidate that is a directory, "" for None
find_clang(isdir) ==
  IF isdir \cap DOMAIN clang_paths = {} THEN ""
  ELSE clang_paths[CHOOSE i \in isdir \cap DOMAIN clang_paths :
                     \A j \in isdir \cap DOMAIN clang_paths : i <= j]

\* the toolchain lines without the `if self.platform == "win"` guard
clang_args_any_platform(platform, isdir) ==
  IF find_clang(isdir) # ""
  THEN << <<"clang_win", find_clang(isdir)>> >>
  ELSE <<>>

\* the toolchain lines appended to the text (win only)
clang_args(platform, isdir) ==
  IF platform = "win" /\ find_clang(isdir) # ""
  THEN << <<"clang_win", find_clang(isdir)>> >>
  ELSE <<>>

\* the text generate_gn_args passes as --args, for the object s on a machine
\* where isdir are the candidate toolchain directories that exist
render_gn_args(s, isdir) ==
  VIEWER_BASE_GN_ARGS(PyBool(s.with_ganesh), PyBool(s.with_graphite))
  \o PLATFORM_GN_ARGS(s.platform, s.arch,
                      PyBool(In("gl", s.backends)),
                      PyBool(In("metal", s.backends)),
                      PyBool(In("vulkan", s.backends)),
                      PyBool(In("d3d", s.backends)),
                      PyBool(In("dawn", s.backends)),
                      IF s.config = "Debug" THEN "/MTd" ELSE "/MT")
  \o << <<"is_debug", IF s.config = "Debug" THEN "true" ELSE "false">> >>
  \o << <<"is_official_build", "false">> >>
  \o clang_args(s.platform, isdir)

\* TMP_DIR / f"{platform}_{config}_{arch}"
build_dir(s) == <<"build", "tmp", "viewer", s.platform, s.config, s.arch>>

(* --------------------------- artifact stage ---------------------------- *)

get_output_dir(s) ==
  LET variant    == IF s.with_ganesh \/ s.with_graphite THEN "gpu" ELSE "cpu"
      viewer_dir == IF variant = "gpu" THEN <<"build", "viewer-gpu">>
                                       ELSE <<"build", "viewer-cpu">>
  IN  IF s.platform = "mac"
      THEN viewer_dir \o <<"mac", s.config>>
      ELSE viewer_dir \o <<s.platform, s.config, s.arch>>

exe_name(platform) == IF platform = "win" THEN "viewer.exe" ELSE "viewer"

launcher_name(platform) ==
  IF platform = "win" THEN "run-viewer.bat" ELSE "run-viewer.sh"

RESOURCE_DIRS == <<"fonts", "images", "skottie", "sksl", "text", "svg">>

\* which of the resource directories the Skia checkout holds
ResourceTrees == {{"fonts", "images"}, Range(RESOURCE_DIRS)}

(* ------------------------- the order of run() -------------------------- *)

\* run() with copy_output called before build_viewer
run_order_copy_first(with_resources) ==
  <<"parse_arguments", "verify_prerequisites", "setup_depot_tools",
    "generate_gn_args", "copy_output", "build_viewer">>
  \o (IF with_resources THEN <<"copy_resources">> ELSE <<>>)
  \o <<"create_launcher_script", "print_success">>

run_order(with_resources) ==
  <<"parse_arguments", "verify_prerequisites", "setup_depot_tools",
    "generate_gn_args", "build_viewer", "copy_output">>
  \o (IF with_resources THEN <<"copy_resources">> ELSE <<>>)
  \o <<"create_launcher_script", "print_success">>

\* the statement of run() that follows `stage`; "exited" after the last
after(stage, s) ==
  LET order == run_order(s.with_resources)
      i     == CHOOSE k \in DOMAIN order : order[k] = stage
  IN  IF i = Len(order) THEN "exited" ELSE order[i + 1]

(* ------------------------------ the state ------------------------------ *)

\* the object after __init__
self0 ==
  [platform |-> "None", config |-> "Release", arch |-> "None", backends |-> <<>>,
   with_ganesh |-> TRUE, with_graphite |-> TRUE, with_resources |-> TRUE,
   clean |-> FALSE]

\* what the process has done to its environment; nothing at start.
\* gn_status / ninja_status: -1 until the tool has returned.
world0 ==
  [path_prepended |-> FALSE,
   cwd            |-> "invocation_dir",
   removed_dir    |-> <<>>,
   gn_dir         |-> <<>>,
   gn_args        |-> <<>>,
   clang_win      |-> "",
   gn_status      |-> -1,
   ninja_dir      |-> <<>>,
   ninja_status   |-> -1,
   made_dir       |-> <<>>,
   copied_exe     |-> <<>>,
   resources      |-> {},
   launcher       |-> <<>>,
   reported       |-> <<>>]

Init ==
  /\ args \in ArgSpace
  /\ self = self0
  /\ pc = "parse_arguments"
  /\ exit_code = -1
  /\ stages = <<>>
  /\ messages = <<>>
  /\ world = world0

\* an exception nobody catches: traceback, exit status 1
Traceback(what) == <<"Traceback", what>>

(* ----------------------------- the stages ------------------------------ *)

ParseArguments ==
  /\ pc = "parse_arguments"
  /\ LET v == validate_configuration(assign_arguments(args))
     IN  /\ self' = v.self
         /\ messages' = messages \o v.out
         /\ pc' = IF v.exit THEN "exited" ELSE after("parse_arguments", v.self)
         /\ exit_code' = IF v.exit THEN 1 ELSE exit_code
  /\ stages' = Append(stages, "parse_arguments")
  /\ UNCHANGED <<args, world>>

VerifyPrerequisites ==
  /\ pc = "verify_prerequisites"
  /\ \E skia_src \in BOOLEAN, imgui \in BOOLEAN, depot_tools \in BOOLEAN :
       IF ~skia_src
       THEN /\ messages' = messages \o << <<"Error: Skia source not found", "">>,
                                         <<"Please run build-skia.py first", "">> >>
            /\ pc' = "exited" /\ exit_code' = 1
       ELSE IF ~imgui
       THEN /\ messages' = messages \o << <<"Error: Skia dependencies not synced", "">>,
                                         <<"Please run build-skia.py first", "">> >>
            /\ pc' = "exited" /\ exit_code' = 1
       ELSE IF ~depot_tools
       THEN /\ messages' = messages \o << <<"Error: depot_tools not found", "">>,
                                         <<"Please run build-skia.py first", "">> >>
            /\ pc' = "exited" /\ exit_code' = 1
       ELSE /\ messages' = Append(messages, <<"Prerequisites verified.", "">>)
            /\ pc' = after("verify_prerequisites", self)
            /\ exit_code' = exit_code
  /\ stages' = Append(stages, "verify_prerequisites")
  /\ UNCHANGED <<args, self, world>>

SetupDepotTools ==
  /\ pc = "setup_depot_tools"
  /\ world' = [world EXCEPT !.path_prepended = TRUE]
  /\ pc' = after("setup_depot_tools", self)
  /\ stages' = Append(stages, "setup_depot_tools")
  /\ UNCHANGED <<args, self, exit_code, messages>>

GenerateGnArgs ==
  /\ pc = "generate_gn_args"
  /\ \E dir_exists \in BOOLEAN, status \in {0, 1},
        isdir \in (IF self.platform = "win" THEN ClangInstalls ELSE {{}}) :
       LET output_dir == build_dir(self)
           gn_args    == render_gn_args(self, isdir)
           scanned    == self.platform = "win"
       IN  /\ world' = [world EXCEPT
                 !.removed_dir = IF self.clean /\ dir_exists THEN output_dir ELSE <<>>,
                 !.cwd         = "SKIA_SRC_DIR",
                 !.gn_dir      = output_dir,
                 !.gn_args     = gn_args,
                 !.clang_win   = IF scanned THEN find_clang(isdir) ELSE "",
                 !.gn_status   = status]
           /\ messages' = messages
                \o (IF self.clean /\ dir_exists THEN << <<"Cleaning", "">> >> ELSE <<>>)
                \o (IF scanned /\ find_clang(isdir) = ""
                    THEN << <<"Warning: Clang/LLVM not found - build may fail", "">> >>
                    ELSE <<>>)
                \o << <<"Generating GN args", "">> >>
                \o (IF status # 0 THEN <<Traceback("CalledProcessError")>> ELSE <<>>)
           /\ pc' = IF status # 0 THEN "exited" ELSE after("generate_gn_args", self)
           /\ exit_code' = IF status # 0 THEN 1 ELSE exit_code
  /\ stages' = Append(stages, "generate_gn_args")
  /\ UNCHANGED <<args, self>>

BuildViewer ==
  /\ pc = "build_viewer"
  /\ \E status \in {0, 1} :
       /\ world' = [world EXCEPT !.ninja_dir = world.gn_dir, !.ninja_status = status]
       /\ IF status = 0
          THEN /\ messages' = messages \o << <<"Building viewer", "">>,
                                            <<"Viewer built successfully.", "">> >>
               /\ pc' = after("build_viewer", self)
               /\ exit_code' = exit_code
          ELSE /\ messages' = messages \o << <<"Building viewer", "">>,
                                            <<"Error: Build failed", "">> >>
               /\ pc' = "exited"
               /\ exit_code' = 1
  /\ stages' = Append(stages, "build_viewer")
  /\ UNCHANGED <<args, self>>

\* copy_output whose else branch prints the error and returns
CopyOutput_no_exit ==
  /\ pc = "copy_output"
  /\ \E src_file_exists \in BOOLEAN :
       LET dest_dir == get_output_dir(self)
           name     == exe_name(self.platform)
       IN  IF src_file_exists
           THEN /\ world' = [world EXCEPT !.made_dir = dest_dir,
                                          !.copied_exe = Append(dest_dir, name)]
                /\ messages' = Append(messages, <<"Copied", name>>)
           ELSE /\ world' = [world EXCEPT !.made_dir = dest_dir]
                /\ messages' = Append(messages, <<"Error: not found in build dir", name>>)
  /\ pc' = after("copy_output", self)
  /\ exit_code' = exit_code
  /\ stages' = Append(stages, "copy_output")
  /\ UNCHANGED <<args, self>>

CopyOutput ==
  /\ pc = "copy_output"
  /\ \E src_file_exists \in BOOLEAN :
       LET dest_dir == get_output_dir(self)
           name     == exe_name(self.platform)
       IN  IF src_file_exists
           THEN /\ world' = [world EXCEPT !.made_dir = dest_dir,
                                          !.copied_exe = Append(dest_dir, name)]
                /\ messages' = Append(messages, <<"Copied", name>>)
                /\ pc' = after("copy_output", self)
                /\ exit_code' = exit_code
           ELSE /\ world' = [world EXCEPT !.made_dir = dest_dir]
                /\ messages' = Append(messages, <<"Error: not found in build dir", name>>)
                /\ pc' = "exited"
                /\ exit_code' = 1
  /\ stages' = Append(stages, "copy_output")
  /\ UNCHANGED <<args, self>>

CopyResources ==
  /\ pc = "copy_resources"
  /\ \E src_resources_exists \in BOOLEAN, present \in ResourceTrees :
       IF ~src_resources_exists
       THEN /\ messages' = Append(messages, <<"Warning: Skia resources directory not found", "">>)
            /\ world' = world
       ELSE /\ messages' = messages \o << <<"Copying resources...", "">>,
                                         <<"Resources copied.", "">> >>
            /\ world' = [world EXCEPT
                 !.resources = {d \in Range(RESOURCE_DIRS) : d \in present}]
  /\ pc' = after("copy_resources", self)
  /\ stages' = Append(stages, "copy_resources")
  /\ UNCHANGED <<args, self, exit_code>>

CreateLauncherScript ==
  /\ pc = "create_launcher_script"
  /\ LET launcher_path == Append(get_output_dir(self), launcher_name(self.platform))
     IN  /\ world' = [world EXCEPT !.launcher = launcher_path]
         /\ messages' = Append(messages, <<"Created launcher", launcher_name(self.platform)>>)
  /\ pc' = after("create_launcher_script", self)
  /\ stages' = Append(stages, "create_launcher_script")
  /\ UNCHANGED <<args, self, exit_code>>

\* the last statement of run(): when it returns the interpreter exits with 0
PrintSuccess ==
  /\ pc = "print_success"
  /\ LET launcher == Append(get_output_dir(self), launcher_name(self.platform))
     IN  /\ world' = [world EXCEPT !.reported = launcher]
         /\ messages' = Append(messages, <<"Viewer built successfully!", "">>)
  /\ pc' = after("print_success", self)
  /\ exit_code' = 0
  /\ stages' = Append(stages, "print_success")
  /\ UNCHANGED <<args, self>>

Next ==
  \/ ParseArguments
  \/ VerifyPrerequisites
  \/ SetupDepotTools
  \/ GenerateGnArgs
  \/ BuildViewer
  \/ CopyOutput
  \/ CopyResources
  \/ CreateLauncherScript
  \/ PrintSuccess

Spec == Init /\ [][Next]_vars

TypeOK ==
  /\ args \in ArgSpace
  /\ pc \in Range(run_order(TRUE)) \cup {"exited"}
  /\ exit_code \in {-1, 0, 1}
  /\ (pc = "exited") = (exit_code # -1)

(* ============================ the claims =============================== *)

\* the run has left parse_arguments (by returning or by exiting)
Resolved == stages # <<>>

\* the run ended inside parse_arguments
ValidationExit == pc = "exited" /\ stages = <<"parse_arguments">>

\* the backends asked for: the items of -backends, trimmed and lower-cased,
\* or the platform's defaults when the option is omitted
Requested == parse_backends(args.platform, args.backends)

\* the architecture asked for: -arch, or the platform's default
RequestedArch == IF args.arch # "" THEN args.arch ELSE get_default_arch(args.platform)

\* the backends marked True for a platform, as the table of the source lists them
RecommendedFor(platform) ==
  CASE platform = "mac"   -> {"gl", "metal", "dawn"}
    [] platform = "win"   -> {"gl", "vulkan", "d3d", "dawn"}
    [] platform = "linux" -> {"gl", "vulkan", "dawn"}

IsRecommended(b) == b \in RecommendedFor(args.platform)

\* the architectures a platform allows
AllowedArchs(platform) ==
  CASE platform = "mac"   -> {"arm64"}
    [] platform = "win"   -> {"x64", "arm64"}
    [] platform = "linux" -> {"x64", "arm64"}

Printed(m) == In(m, messages)

Warnings == SelectSeq(messages, LAMBDA m : m[1] \in {"Warning: not recognized",
                                                     "Warning: not recommended"})

\* C1: when both --no-ganesh and --no-graphite are given, whatever the other
\* inputs (dawn requested or not), the resolver ends the process with exit
\* code 1 and the run never goes past parse_arguments.
C1_BothEnginesDisabledExits ==
  (Resolved /\ args.no_ganesh /\ args.no_graphite)
    => (ValidationExit /\ exit_code = 1 /\ Printed(ErrEngines))

\* C1 witness: both engines disabled while dawn is requested, process exited 1
C1_Witness ==
  /\ args.no_ganesh /\ args.no_graphite /\ In("dawn", args.backends)
  /\ args.platform = "win" /\ args.arch = "x64"
  /\ pc = "exited" /\ exit_code = 1

\* C2: with at least one engine enabled, the resolver keeps exactly the
\* requested backends marked True for the platform, in the requested order,
\* and prints one warning per dropped backend; it exits with code 1 on account
\* of the backends if and only if nothing is kept, and a partial drop never
\* causes an exit.
C2_BackendFilter ==
  (Resolved /\ ~(args.no_ganesh /\ args.no_graphite)) =>
    LET kept == SelectSeq(Requested, IsRecommended)
    IN  /\ self.backends = kept
        /\ Len(Warnings) = Len(Requested) - Len(kept)
        /\ Printed(ErrBackends) <=> (kept = <<>>)
        /\ (kept = <<>>) => (ValidationExit /\ exit_code = 1)
        /\ (kept # <<>> /\ ValidationExit) => RequestedArch \notin AllowedArchs(args.platform)

\* C2 witness: platform mac, backends vulkan: warned, nothing kept, exit 1
C2_Witness ==
  /\ args.platform = "mac" /\ args.backends = <<"vulkan">>
  /\ ~args.no_ganesh /\ ~args.no_graphite
  /\ Printed(<<"Warning: not recommended", "vulkan">>)
  /\ self.backends = <<>>
  /\ pc = "exited" /\ exit_code = 1

\* the case of C3: dawn requested, Graphite disabled, architecture valid
DawnWithoutGraphite ==
  /\ Resolved
  /\ In("dawn", Requested)
  /\ args.no_graphite
  /\ RequestedArch \in AllowedArchs(args.platform)

\* C3 as stated: for either setting of the Ganesh flag, dawn requested with
\* --no-graphite makes the resolver enable Graphite and go on to the
\* prerequisite stage, never ending with an error.
C3_DawnForcesGraphite_AnyGanesh ==
  DawnWithoutGraphite => (self.with_graphite /\ ~ValidationExit)

\* C3 amended: with Ganesh enabled, dawn requested with --no-graphite makes
\* the resolver enable Graphite (with a warning) and go on to the
\* prerequisite stage.
C3_DawnForcesGraphite ==
  (DawnWithoutGraphite /\ ~args.no_ganesh) =>
    /\ self.with_graphite
    /\ Printed(WarnDawn)
    /\ ~ValidationExit
    /\ (Len(stages) = 1 => pc = "verify_prerequisites")

\* C3 witness: dawn with --no-graphite, Ganesh on: Graphite enabled, run at
\* the prerequisite stage
C3_Witness ==
  /\ In("dawn", args.backends) /\ args.no_graphite /\ ~args.no_ganesh
  /\ self.with_graphite
  /\ pc = "verify_prerequisites"

\* C4: with -arch and -backends omitted and no engine disabled, the request
\* is the table defaults (mac arm64 [gl, metal, dawn]; win x64 [gl, vulkan,
\* d3d, dawn]; linux x64 [gl, vulkan, dawn]) with both engines enabled, no
\* backend is dropped, and the resolver hands over to the following stages
\* without a validation exit.
C4_Defaults ==
  (Resolved /\ args.arch = "" /\ args.backends = <<>>
            /\ ~args.no_ganesh /\ ~args.no_graphite) =>
    /\ self.platform = args.platform
    /\ self.arch = (CASE args.platform = "mac"   -> "arm64"
                      [] args.platform = "win"   -> "x64"
                      [] args.platform = "linux" -> "x64")
    /\ self.backends = (CASE args.platform = "mac"   -> <<"gl", "metal", "dawn">>
                          [] args.platform = "win"   -> <<"gl", "vulkan", "d3d", "dawn">>
                          [] args.platform = "linux" -> <<"gl", "vulkan", "dawn">>)
    /\ self.with_ganesh /\ self.with_graphite
    /\ Warnings = <<>>
    /\ ~ValidationExit
    /\ (Len(stages) = 1 => pc = "verify_prerequisites")

\* C4 witness: linux with no -arch and no -backends has reached the compile
\* stage with x64 and [gl, vulkan, dawn]
C4_Witness ==
  /\ args.platform = "linux" /\ args.arch = "" /\ args.backends = <<>>
  /\ ~args.no_ganesh /\ ~args.no_graphite
  /\ self.arch = "x64" /\ self.backends = <<"gl", "vulkan", "dawn">>
  /\ In("generate_gn_args", stages) /\ pc = "build_viewer"

\* the build request is well formed
RequestValid ==
  /\ self.with_ganesh \/ self.with_graphite
  /\ self.backends # <<>>
  /\ \A i \in DOMAIN self.backends : self.backends[i] \in RecommendedFor(self.platform)
  /\ In("dawn", self.backends) => self.with_graphite
  /\ self.arch \in AllowedArchs(self.platform)
  /\ self.platform \in Platforms /\ self.config \in Configs

\* C5: from the moment parse_arguments returns until the process ends the
\* build request is well formed (an engine enabled; backends non-empty and
\* all marked True for the platform; dawn implies Graphite; architecture
\* allowed for the platform), and no later stage changes any of its fields.
C5_RequestInvariant ==
  /\ [](Resolved /\ ~ValidationExit => RequestValid)
  /\ [][Resolved => self' = self]_vars

\* C5 witness: a request resolved with a not-recommended backend dropped and
\* Graphite force-enabled, still well formed when the run has finished
C5_Witness ==
  /\ args.platform = "mac" /\ args.backends = <<"vulkan", "dawn">>
  /\ args.no_graphite
  /\ self.backends = <<"dawn">> /\ self.with_graphite
  /\ pc = "exited" /\ exit_code = 0

\* the three ways a request fails validation
InvalidRequest ==
  \/ args.no_ganesh /\ args.no_graphite
  \/ SelectSeq(Requested, IsRecommended) = <<>>
  \/ RequestedArch \notin AllowedArchs(args.platform)

\* C6: every validation failure ends the run with exit code 1 inside
\* parse_arguments, before any external side effect: no prerequisite check,
\* PATH and working directory untouched, no build directory removed (even
\* with --clean), neither gn nor ninja invoked, nothing written.
C6_ValidationExitsBeforeEffects ==
  (Resolved /\ InvalidRequest) =>
    /\ pc = "exited" /\ exit_code = 1
    /\ stages = <<"parse_arguments">>
    /\ ~world.path_prepended
    /\ world.cwd = "invocation_dir"
    /\ world.removed_dir = <<>>
    /\ world.gn_status = -1 /\ world.gn_dir = <<>>
    /\ world.ninja_status = -1 /\ world.ninja_dir = <<>>
    /\ world.made_dir = <<>> /\ world.copied_exe = <<>>
    /\ world.resources = {} /\ world.launcher = <<>> /\ world.reported = <<>>

\* C6 witness: --clean with an architecture the platform does not allow
C6_Witness ==
  /\ args.clean /\ args.platform = "mac" /\ args.arch = "x64"
  /\ Printed(ErrArch("x64"))
  /\ pc = "exited" /\ exit_code = 1

\* s is an initial segment of t
IsPrefix(s, t) == Len(s) <= Len(t) /\ \A i \in 1..Len(s) : s[i] = t[i]

\* the stage order of the specification
StageOrder ==
  <<"parse_arguments", "verify_prerequisites", "setup_depot_tools",
    "generate_gn_args", "build_viewer", "copy_output", "copy_resources",
    "create_launcher_script", "print_success">>

\* the stages of one run: the optional resource copy is left out when
\* resources are not wanted
StagesOfRun ==
  SelectSeq(StageOrder, LAMBDA st : st # "copy_resources" \/ ~args.no_resources)

LaterStagesUntouched ==
  /\ world.made_dir = <<>> /\ world.copied_exe = <<>>
  /\ world.resources = {} /\ world.launcher = <<>> /\ world.reported = <<>>
  /\ \A i \in DOMAIN stages :
       stages[i] \notin {"copy_output", "copy_resources",
                         "create_launcher_script", "print_success"}

PrerequisiteMissing ==
  \E i \in DOMAIN messages :
     messages[i][1] \in {"Error: Skia source not found",
                         "Error: Skia dependencies not synced",
                         "Error: depot_tools not found"}

\* C7: the stages run in the fixed order resolver, prerequisites, PATH setup,
\* generate, compile, artifact copy, optional resource copy, launcher,
\* report, each at most once, a stage starting only after all earlier ones
\* completed; when gn or ninja returns non-zero or a prerequisite directory
\* is missing the process ends with exit code 1 and no later stage runs.
C7_StageOrder ==
  /\ IsPrefix(stages, StagesOfRun)
  /\ pc # "exited" => (Len(stages) < Len(StagesOfRun) /\ pc = StagesOfRun[Len(stages) + 1])
  /\ exit_code = 0 <=> stages = StagesOfRun
  /\ world.gn_status = 1 =>
       (pc = "exited" /\ exit_code = 1 /\ world.ninja_status = -1
        /\ stages[Len(stages)] = "generate_gn_args" /\ LaterStagesUntouched)
  /\ world.ninja_status = 1 =>
       (pc = "exited" /\ exit_code = 1
        /\ stages[Len(stages)] = "build_viewer" /\ LaterStagesUntouched)
  /\ PrerequisiteMissing =>
       (pc = "exited" /\ exit_code = 1 /\ world.gn_status = -1
        /\ stages[Len(stages)] = "verify_prerequisites" /\ LaterStagesUntouched)

\* C7 witness: ninja returned non-zero after a successful gn gen
C7_Witness ==
  /\ world.gn_status = 0 /\ world.ninja_status = 1
  /\ pc = "exited" /\ exit_code = 1

\* gn has just been invoked: the state that holds the text passed as --args
Generated == stages # <<>> /\ stages[Len(stages)] = "generate_gn_args"

\* the request with its backend list replaced by the list that names the same
\* backends once each, in a fixed order: equal for any two requests with the
\* same backend set
CanonicalRequest ==
  [self EXCEPT !.backends =
     SelectSeq(<<"gl", "metal", "vulkan", "d3d", "dawn">>,
               LAMBDA b : b \in Range(self.backends))]

\* C8 as stated: the text passed to gn is a function of the build request
\* alone: whatever toolchain directories exist, on every platform including
\* win, an invocation with the same platform, configuration, architecture,
\* backend set and engine flags renders the same text (the text of the
\* canonical request, on any machine).
C8_TextFunctionOfRequest ==
  Generated =>
    \A isdir \in ClangInstalls :
       render_gn_args(CanonicalRequest, isdir) = world.gn_args

\* C8 amended: on mac and linux the text is a function of the build request
\* alone; on win it is a function of the build request and of the first
\* candidate clang_win directory that exists (none included).
C8_TextFunctionOfRequestAndToolchain ==
  Generated =>
    \A isdir \in ClangInstalls :
       (self.platform # "win" \/ find_clang(isdir) = world.clang_win) =>
         render_gn_args(CanonicalRequest, isdir) = world.gn_args

\* C8 witness: a win run whose text embeds a toolchain path that is not the
\* first candidate
C8_Witness ==
  /\ Generated /\ self.platform = "win"
  /\ world.clang_win = clang_paths[2]
  /\ In(<<"clang_win", clang_paths[2]>>, world.gn_args)

\* C9: for platform win with arch arm64 and gl in the backend list, the
\* rendered configuration contains skia_use_gl = false.
C9_WinArm64SuppressesGl ==
  (Generated /\ self.platform = "win" /\ self.arch = "arm64" /\ In("gl", self.backends))
    => In(<<"skia_use_gl", "false">>, world.gn_args)

\* C10: when ninja reported success but the executable is absent from the
\* build directory, copy_output prints a diagnostic and ends the process with
\* exit code 1: no executable in the output directory, no resources copied,
\* no launcher written, no success report.
C10_MissingArtifactIsFatal ==
  (In("copy_output", stages) /\ world.copied_exe = <<>>) =>
    /\ world.ninja_status = 0
    /\ Printed(<<"Error: not found in build dir", exe_name(args.platform)>>)
    /\ pc = "exited" /\ exit_code = 1
    /\ stages[Len(stages)] = "copy_output"
    /\ world.resources = {} /\ world.launcher = <<>> /\ world.reported = <<>>
    /\ ~Printed(<<"Viewer built successfully!", "">>)

\* C10 witness: a win build that succeeded without leaving viewer.exe
C10_Witness ==
  /\ args.platform = "win" /\ world.ninja_status = 0
  /\ Printed(<<"Error: not found in build dir", "viewer.exe">>)
  /\ world.copied_exe = <<>>
  /\ pc = "exited" /\ exit_code = 1

\* the output directory of a run, as the layout is described: viewer-gpu/mac/
\* <config> on mac, viewer-gpu/<platform>/<config>/<arch> elsewhere
GpuOutputDir ==
  IF self.platform = "mac"
  THEN <<"build", "viewer-gpu", "mac", self.config>>
  ELSE <<"build", "viewer-gpu", self.platform, self.config, self.arch>>

\* C11: in every run that reaches the artifact stage the output directory is
\* the "viewer-gpu" variant (viewer-gpu/mac/<config> on mac, viewer-gpu/
\* <platform>/<config>/<arch> otherwise), never "viewer-cpu", and copy_output,
\* create_launcher_script and print_success all use that same directory.
C11_OutputDirIsGpu ==
  In("copy_output", stages) =>
    /\ get_output_dir(self) = GpuOutputDir
    /\ world.made_dir = GpuOutputDir
    /\ world.copied_exe \in {<<>>, Append(GpuOutputDir, exe_name(self.platform))}
    /\ world.launcher \in {<<>>, Append(GpuOutputDir, launcher_name(self.platform))}
    /\ world.reported \in {<<>>, Append(GpuOutputDir, launcher_name(self.platform))}
    /\ In("create_launcher_script", stages) => world.launcher # <<>>
    /\ In("print_success", stages) => world.reported = world.launcher

\* C11 witness: a finished linux run with only Ganesh enabled whose three
\* artifact steps used viewer-gpu/linux/Debug/arm64
C11_Witness ==
  /\ args.platform = "linux" /\ args.config = "Debug" /\ args.arch = "arm64"
  /\ args.no_graphite /\ ~self.with_graphite
  /\ world.made_dir = <<"build", "viewer-gpu", "linux", "Debug", "arm64">>
  /\ world.copied_exe = <<"build", "viewer-gpu", "linux", "Debug", "arm64", "viewer">>
  /\ world.launcher = <<"build", "viewer-gpu", "linux", "Debug", "arm64", "run-viewer.sh">>
  /\ world.reported = world.launcher
  /\ exit_code = 0

====
